---- MODULE Spec2Model ----
(***************************************************************************)
(* State-machine model of prediction_app/database/db_manager.py            *)
(* (class DatabaseManager): the three tables reached through the session   *)
(* (users, questions, user_questions), the clock read by datetime.utcnow() *)
(* and the outcome of the last call.                                       *)
(***************************************************************************)
EXTENDS Integers, Sequences, FiniteSets, Bags, TLC

VARIABLES
    users,      \* table users: row i has id i
    questions,  \* table questions: row i has id i
    views,      \* table user_questions: a bag of rows (no key, no order)
    today,      \* the clock's date, a day number (day 0 is a Monday)
    now,        \* the clock's time of day, in ticks
    input,      \* the question text handed to save_question
    ret         \* the last call: operation, arguments, exception, value

vars == <<users, questions, views, today, now, input, ret>>

-----------------------------------------------------------------------------
(* Bounds of the model. *)

MaxUsers == 2
MaxQuestions == 2
MaxViews == 2
MaxTime == 2
MaxLen == 2
MaxText == 3
TicksPerSecond == 2

-----------------------------------------------------------------------------
(* Python values. *)

\* None and a present value of an Optional / nullable column.
None == <<>>
Some(x) == <<x>>

\* An argument with its run-time type: isinstance() reads the type.
PyInt(n) == [t |-> "int", v |-> n]
PyBool(b) == [t |-> "bool", v |-> IF b THEN 1 ELSE 0]
PyStr(n) == [t |-> "str", v |-> n]

\* isinstance(x, int): bool is a subclass of int.
isinstance_int(x) == x.t \in {"int", "bool"}
\* isinstance(x, bool)
isinstance_bool(x) == x.t = "bool"

\* A list argument, or something that is not a list.
PyList(s) == [t |-> "list", items |-> s]
PyNotList == [t |-> "str", items |-> <<>>]
isinstance_list(x) == x.t = "list"

\* A str is the sequence of its characters.
UpperChars == <<"A", "B", "C", "D", "E", "F", "G", "H", "I", "J", "K", "L", "M",
                "N", "O", "P", "Q", "R", "S", "T", "U", "V", "W", "X", "Y", "Z">>
LowerChars == <<"a", "b", "c", "d", "e", "f", "g", "h", "i", "j", "k", "l", "m",
                "n", "o", "p", "q", "r", "s", "t", "u", "v", "w", "x", "y", "z">>
lower_char(c) ==
    IF \E i \in 1..Len(UpperChars) : UpperChars[i] = c
    THEN LowerChars[CHOOSE i \in 1..Len(UpperChars) : UpperChars[i] = c]
    ELSE c
\* str.lower()
lower(s) == [i \in 1..Len(s) |-> lower_char(s[i])]
\* kw in s: kw occurs in s as a substring.
contains(s, kw) ==
    \E i \in 1..(Len(s) - Len(kw) + 1) : SubSeq(s, i, i + Len(kw) - 1) = kw

\* [str(i).lower() for i in interests]
lower_all(list) == [i \in 1..Len(list) |-> lower(list[i])]

\* json.dumps of a list of strings: the text as a sequence of tokens
\* [ "a" , "b" ].
Tok(k, s) == [k |-> k, s |-> s]
RECURSIVE json_dumps_items(_)
json_dumps_items(list) ==
    IF Len(list) = 0 THEN <<>>
    ELSE IF Len(list) = 1 THEN <<Tok("str", list[1])>>
    ELSE <<Tok("str", list[1]), Tok(",", <<>>)>> \o json_dumps_items(Tail(list))
json_dumps(list) == <<Tok("[", <<>>)>> \o json_dumps_items(list) \o <<Tok("]", <<>>)>>

\* json.loads of such a text: the strings between the brackets, the
\* commas skipped.
json_loads(text) == [i \in 1..((Len(text) - 1) \div 2) |-> text[2 * i].s]

\* json.loads(None) raises TypeError.
json_loads_raises(col) == col = None

-----------------------------------------------------------------------------
(* The clock and datetime. *)

utcnow == [day |-> today, tick |-> now]
\* dt + timedelta(days=d)
plus_days(dt, d) == [day |-> dt.day + d, tick |-> dt.tick]
\* datetime.weekday(): Monday is 0, Sunday is 6.
weekday(dt) == dt.day % 7
\* strftime('%Y-%m-%d %H:%M:%S'): the fraction of a second is dropped.
strftime(dt) == [day |-> dt.day, sec |-> dt.tick \div TicksPerSecond]
\* dt1 < dt2 on stored timestamps
dt_less(a, b) == a.day < b.day \/ (a.day = b.day /\ a.tick < b.tick)
\* the order of two formatted timestamps
fmt_less(a, b) == a.day < b.day \/ (a.day = b.day /\ a.sec < b.sec)

\* The outcome of a call.
\* The outcome of a call: the exception that reached the caller ("none" when
\* it returned), the value returned, and whether the storage raised an
\* SQLAlchemyError during the call.
Ret(op, args, raised, value, dberr) ==
    [op |-> op, args |-> args, raised |-> raised, value |-> value,
     dberr |-> dberr]

-----------------------------------------------------------------------------
(* Users. *)

\* The unique constraint on users.username: an insert of a name already
\* stored is refused by the storage.
username_taken(username) == \E i \in 1..Len(users) : users[i].username = username

\* create_user(username, interests): no validation, no lower-casing; a
\* storage error propagates and nothing is stored.
create_user(username, interests, fail) ==
    /\ Len(users) < MaxUsers
    /\ IF fail \/ username_taken(username)
       THEN /\ ret' = Ret("create_user", <<username, interests>>, "SQLAlchemyError", None, TRUE)
            /\ UNCHANGED users
       ELSE /\ users' = Append(users, [username |-> username,
                                       interests |-> json_dumps(interests)])
            /\ ret' = Ret("create_user", <<username, interests>>, "none",
                          Some(Len(users) + 1), FALSE)
    /\ UNCHANGED <<questions, views, today, now, input>>

\* The rows get_user's query matches.
named_in(tbl, username) == {i \in 1..Len(tbl) : tbl[i].username = username}
users_named(username) == named_in(users, username)

\* The dict get_user builds from a row.
row_dict(tbl, i) ==
    [id |-> i, username |-> tbl[i].username,
     interests |-> json_loads(tbl[i].interests)]
user_dict(i) == row_dict(users, i)

\* get_user(username): a row with that username, or None; a storage error
\* is caught and gives None.
get_user(username, fail) ==
    /\ IF fail
       THEN ret' = Ret("get_user", <<username>>, "none", None, TRUE)
       ELSE LET found == users_named(username)
            IN  IF found = {}
                THEN ret' = Ret("get_user", <<username>>, "none", None, FALSE)
                ELSE \E i \in found :
                        ret' = Ret("get_user", <<username>>, "none", Some(user_dict(i)), FALSE)
    /\ UNCHANGED <<users, questions, views, today, now, input>>

\* A sanitizing step that keeps each interest as given.
sanitize_interests_verbatim(list) == list
\* The list update_user_interests stores for its argument.
sanitize_interests(list) == lower_all(list)

\* update_user_interests(user_id, interests): a ValueError of the
\* validation is not an SQLAlchemyError and propagates; a storage error is
\* rolled back and swallowed.
update_user_interests(user_id, interests, fail) ==
    /\ IF ~isinstance_int(user_id) \/ ~isinstance_list(interests)
       THEN /\ ret' = Ret("update_user_interests", <<user_id, interests>>, "ValueError", None, FALSE)
            /\ UNCHANGED users
       ELSE /\ ret' = Ret("update_user_interests", <<user_id, interests>>, "none", None, fail)
            /\ IF ~fail /\ user_id.v \in 1..Len(users)
               THEN users' = [users EXCEPT ![user_id.v].interests =
                                  json_dumps(sanitize_interests(interests.items))]
               ELSE UNCHANGED users
    /\ UNCHANGED <<questions, views, today, now, input>>

-----------------------------------------------------------------------------
(* Questions. *)

TomorrowDays == 1
ThisWeekDays == 7
DefaultDays == 7
Sunday == 6
DaysInWeek == 7
NoteLimit == 500

kw_tomorrow == <<"t", "o", "m", "o", "r", "r", "o", "w">>
kw_this_week == <<"t", "h", "i", "s", " ", "w", "e", "e", "k">>
kw_weekend == <<"w", "e", "e", "k", "e", "n", "d">>

\* The days to Sunday counted as if Sunday were weekday 0.
days_until_sunday_from_zero(dt) == (DaysInWeek - weekday(dt)) % DaysInWeek
\* (6 - now.weekday()) % 7
days_until_sunday(dt) == (Sunday - weekday(dt)) % DaysInWeek

\* _extract_resolution_date(question): the first keyword found in the
\* lower-cased text decides, in the order tomorrow, this week, weekend.
extract_resolution_date(question) ==
    IF contains(lower(question), kw_tomorrow)
    THEN plus_days(utcnow, TomorrowDays)
    ELSE IF contains(lower(question), kw_this_week)
    THEN plus_days(utcnow, ThisWeekDays)
    ELSE IF contains(lower(question), kw_weekend)
    THEN plus_days(utcnow, days_until_sunday(utcnow))
    ELSE plus_days(utcnow, DefaultDays)

\* The value of a nullable column of questions that an insert does not set.
column_unset == None

\* The row save_question inserts: no source_links.
saved_row(question_text, interest, source_articles) ==
    [question_text |-> question_text,
     interest |-> interest,
     source_articles |-> Some(json_dumps(source_articles)),
     source_links |-> column_unset,
     resolution_date |-> Some(extract_resolution_date(question_text)),
     status |-> Some("pending"),
     resolved_at |-> column_unset,
     outcome |-> column_unset,
     resolution_note |-> column_unset]

\* save_question(question_text, interest, source_articles): a storage error
\* propagates.
save_question(question_text, interest, source_articles, fail) ==
    /\ Len(questions) < MaxQuestions
    /\ IF fail
       THEN /\ ret' = Ret("save_question", <<question_text, interest>>,
                          "SQLAlchemyError", None, TRUE)
            /\ UNCHANGED questions
       ELSE /\ questions' = Append(questions,
                                   saved_row(question_text, interest, source_articles))
            /\ ret' = Ret("save_question", <<question_text, interest>>, "none",
                          Some(Len(questions) + 1), FALSE)
    /\ UNCHANGED <<users, views, today, now, input>>

\* The row create_question inserts: source_links given, no resolution_date,
\* no status.
created_row(question_text, interest, source_articles, source_links) ==
    [question_text |-> question_text,
     interest |-> interest,
     source_articles |-> Some(json_dumps(source_articles)),
     source_links |-> Some(json_dumps(source_links)),
     resolution_date |-> column_unset,
     status |-> column_unset,
     resolved_at |-> column_unset,
     outcome |-> column_unset,
     resolution_note |-> column_unset]

\* create_question(question_text, interest, source_articles, source_links)
create_question(question_text, interest, source_articles, source_links, fail) ==
    /\ Len(questions) < MaxQuestions
    /\ IF fail
       THEN /\ ret' = Ret("create_question", <<question_text, interest>>,
                          "SQLAlchemyError", None, TRUE)
            /\ UNCHANGED questions
       ELSE /\ questions' = Append(questions,
                                   created_row(question_text, interest,
                                               source_articles, source_links))
            /\ ret' = Ret("create_question", <<question_text, interest>>, "none",
                          Some(Len(questions) + 1), FALSE)
    /\ UNCHANGED <<users, views, today, now, input>>

\* Every sequence of n distinct elements of S.
Arrangements(S, n) ==
    {f \in [1..n -> S] : \A a, b \in 1..n : a # b => f[a] # f[b]}

-----------------------------------------------------------------------------
(* Viewing history. *)

\* mark_question_as_viewed with the validation left out and the insert kept
\* when the commit fails.
mark_question_as_viewed_unchecked(question_id, user_id, fail) ==
    /\ BagCardinality(views) < MaxViews
    /\ ret' = Ret("mark_question_as_viewed", <<question_id, user_id>>,
                  "none", None, fail)
    /\ views' = views (+) SetToBag({[user_id |-> user_id.v,
                                     question_id |-> question_id.v,
                                     viewed_at |-> utcnow]})
    /\ UNCHANGED <<users, questions, today, now, input>>

\* mark_question_as_viewed(question_id, user_id): the ValueError of the
\* validation is not caught; a storage error is rolled back and printed.
mark_question_as_viewed(question_id, user_id, fail) ==
    /\ BagCardinality(views) < MaxViews
    /\ IF ~isinstance_int(question_id) \/ ~isinstance_int(user_id)
       THEN /\ ret' = Ret("mark_question_as_viewed", <<question_id, user_id>>,
                          "ValueError", None, FALSE)
            /\ UNCHANGED views
       ELSE /\ ret' = Ret("mark_question_as_viewed", <<question_id, user_id>>,
                          "none", None, fail)
            /\ IF fail
               THEN UNCHANGED views
               ELSE views' = views (+) SetToBag({[user_id |-> user_id.v,
                                                  question_id |-> question_id.v,
                                                  viewed_at |-> utcnow]})
    /\ UNCHANGED <<users, questions, today, now, input>>

\* The subquery: the question ids of the view rows of user_id.
viewed_ids(user_id) ==
    {r.question_id : r \in {x \in BagToSet(views) : x.user_id = user_id}}

\* The rows of the interest, whoever viewed them.
unused_ids_of_anyone(interest, user_id) ==
    {i \in 1..Len(questions) : questions[i].interest = interest}
\* The rows the unused-question queries match.
unused_ids(interest, user_id) ==
    {i \in 1..Len(questions) :
        /\ questions[i].interest = interest
        /\ i \notin viewed_ids(user_id)}

\* The dict the unused-question calls build from a row.
question_dict(i) ==
    [id |-> i,
     question |-> questions[i].question_text,
     interest |-> questions[i].interest,
     source_articles |-> json_loads(questions[i].source_articles[1])]

\* get_unused_question(interest, user_id): order_by(random()).first(); nothing
\* is caught.
get_unused_question(interest, user_id, fail) ==
    /\ IF fail
       THEN ret' = Ret("get_unused_question", <<interest, user_id>>,
                       "SQLAlchemyError", None, TRUE)
       ELSE LET found == unused_ids(interest, user_id.v)
            IN  IF found = {}
                THEN ret' = Ret("get_unused_question", <<interest, user_id>>,
                                "none", None, FALSE)
                ELSE \E i \in found :
                        ret' = Ret("get_unused_question", <<interest, user_id>>,
                                   "none", Some(question_dict(i)), FALSE)
    /\ UNCHANGED <<users, questions, views, today, now, input>>

\* The interest get_multiple_unused_questions queries for.
sanitize_interest(interest) == lower(interest)

\* No LIMIT at all.
unlimited(n, count) == n
\* The number of rows LIMIT count lets through of n: a negative LIMIT is no
\* limit where the storage accepts it (where it does not, the statement
\* fails: a storage error).
limited(n, count) == IF count < 0 \/ count > n THEN n ELSE count

\* get_multiple_unused_questions(interest, user_id, count): the matching rows
\* in random order, at most count; a storage error is caught and gives [].
get_multiple_unused_questions(interest, user_id, count, fail) ==
    /\ IF ~isinstance_int(user_id) \/ ~isinstance_int(count)
       THEN ret' = Ret("get_multiple_unused_questions", <<interest, user_id, count>>,
                       "ValueError", None, FALSE)
       ELSE IF fail
       THEN ret' = Ret("get_multiple_unused_questions", <<interest, user_id, count>>,
                       "none", <<>>, TRUE)
       ELSE LET found == unused_ids(sanitize_interest(interest), user_id.v)
            IN  \E f \in Arrangements(found, limited(Cardinality(found), count.v)) :
                   ret' = Ret("get_multiple_unused_questions",
                              <<interest, user_id, count>>, "none",
                              [k \in 1..Len(f) |-> question_dict(f[k])], FALSE)
    /\ UNCHANGED <<users, questions, views, today, now, input>>

\* if interest: None and the empty string do not filter.
truthy(interest) == interest # None /\ interest[1] # <<>>

\* The rows of user_questions one by one: <<row, n>> is the n-th copy of
\* row.
view_rows == UNION {{<<r, n>> : n \in 1..CopiesIn(r, views)} : r \in BagToSet(views)}

\* The view rows the history query joins: of the user, with a stored
\* question, of the interest when one is given.
history_rows(user_id, interest) ==
    {x \in view_rows :
        /\ x[1].user_id = user_id
        /\ x[1].question_id \in 1..Len(questions)
        /\ truthy(interest) => questions[x[1].question_id].interest = interest[1]}

\* ORDER BY viewed_at ASC
ordered_asc(f) ==
    \A a, b \in 1..Len(f) :
        a < b => ~dt_less(f[b][1].viewed_at, f[a][1].viewed_at)
\* ORDER BY viewed_at DESC on the rows f[1], f[2], ...: no row is followed by
\* a later one.
ordered_desc(f) ==
    \A a, b \in 1..Len(f) :
        a < b => ~dt_less(f[a][1].viewed_at, f[b][1].viewed_at)

\* The dict the history builds from a view row.
history_dict(x) ==
    [id |-> x[1].question_id,
     interest |-> questions[x[1].question_id].interest,
     viewed_at |-> strftime(x[1].viewed_at)]

\* get_user_question_history(user_id, interest=None): any error gives [].
get_user_question_history(user_id, interest, fail) ==
    /\ IF fail
       THEN ret' = Ret("get_user_question_history", <<user_id, interest>>,
                       "none", <<>>, TRUE)
       ELSE LET rows == history_rows(user_id.v, interest)
            IN  \E f \in {g \in Arrangements(rows, Cardinality(rows)) : ordered_desc(g)} :
                   ret' = Ret("get_user_question_history", <<user_id, interest>>,
                              "none", [k \in 1..Len(f) |-> history_dict(f[k])], FALSE)
    /\ UNCHANGED <<users, questions, views, today, now, input>>

-----------------------------------------------------------------------------
(* Resolution. *)

\* Every row, resolved or not.
all_ids == 1..Len(questions)
\* The rows get_pending_resolutions selects.
pending_ids == {i \in 1..Len(questions) : questions[i].resolved_at = None}

\* The dict get_pending_resolutions builds from a row.
pending_dict(i) ==
    [id |-> i,
     interest |-> questions[i].interest,
     source_articles |-> json_loads(questions[i].source_articles[1]),
     source_links |-> json_loads(questions[i].source_links[1])]

\* get_pending_resolutions(): nothing is caught; json.loads of a row's NULL
\* source_links raises TypeError.
get_pending_resolutions(fail) ==
    /\ IF fail
       THEN ret' = Ret("get_pending_resolutions", <<>>, "SQLAlchemyError", None, TRUE)
       ELSE IF \E i \in pending_ids : json_loads_raises(questions[i].source_links)
       THEN ret' = Ret("get_pending_resolutions", <<>>, "TypeError", None, FALSE)
       ELSE \E f \in Arrangements(pending_ids, Cardinality(pending_ids)) :
               ret' = Ret("get_pending_resolutions", <<>>, "none",
                          [k \in 1..Len(f) |-> pending_dict(f[k])], FALSE)
    /\ UNCHANGED <<users, questions, views, today, now, input>>

\* str(note)[:500]
truncate_note(note) ==
    IF note = None THEN None
    ELSE Some(SubSeq(note[1], 1, IF Len(note[1]) > NoteLimit THEN NoteLimit
                                 ELSE Len(note[1])))

\* A resolution that records the outcome without the time.
resolved_row_untimed(q, result, note) ==
    [q EXCEPT !.outcome = Some(result.v = 1),
              !.resolution_note = truncate_note(note)]
\* The row resolve_question leaves: there is no test of resolved_at.
resolved_row(q, result, note) ==
    [q EXCEPT !.resolved_at = Some(utcnow),
              !.outcome = Some(result.v = 1),
              !.resolution_note = truncate_note(note)]

\* resolve_question(question_id, result, note=None): the ValueError of the
\* validation is not caught; a storage error is rolled back and printed.
resolve_question(question_id, result, note, fail) ==
    /\ IF ~isinstance_int(question_id) \/ ~isinstance_bool(result)
       THEN /\ ret' = Ret("resolve_question", <<question_id, result, note>>,
                          "ValueError", None, FALSE)
            /\ UNCHANGED questions
       ELSE /\ ret' = Ret("resolve_question", <<question_id, result, note>>,
                          "none", None, fail)
            /\ IF ~fail /\ question_id.v \in 1..Len(questions)
               THEN questions' = [questions EXCEPT ![question_id.v] =
                                      resolved_row(@, result, note)]
               ELSE UNCHANGED questions
    /\ UNCHANGED <<users, views, today, now, input>>

\* The dict get_questions builds from a row.
listed_dict(i) ==
    [id |-> i,
     interest |-> questions[i].interest,
     source_links |-> json_loads(questions[i].source_links[1]),
     resolved_at |-> IF questions[i].resolved_at # None
                     THEN Some(strftime(questions[i].resolved_at[1])) ELSE None,
     outcome |-> questions[i].outcome,
     resolution_note |-> questions[i].resolution_note]

\* get_questions(interest=None): nothing is caught.
get_questions(interest, fail) ==
    /\ LET rows == {i \in 1..Len(questions) :
                      truthy(interest) => questions[i].interest = interest[1]}
       IN  IF fail
           THEN ret' = Ret("get_questions", <<interest>>, "SQLAlchemyError", None, TRUE)
           ELSE IF \E i \in rows : json_loads_raises(questions[i].source_links)
           THEN ret' = Ret("get_questions", <<interest>>, "TypeError", None, FALSE)
           ELSE \E f \in Arrangements(rows, Cardinality(rows)) :
                   ret' = Ret("get_questions", <<interest>>, "none",
                              [k \in 1..Len(f) |-> listed_dict(f[k])], FALSE)
    /\ UNCHANGED <<users, questions, views, today, now, input>>

\* Time passes between two calls.
Tick ==
    /\ now < MaxTime
    /\ now' = now + 1
    /\ ret' = Ret("tick", <<>>, "none", None, FALSE)
    /\ UNCHANGED <<users, questions, views, today, input>>

-----------------------------------------------------------------------------
(* Inputs. *)

Usernames == {"alice", "bob"}
Sports == <<"S", "p", "o", "r", "t", "s">>
NEWS == <<"N", "E", "W", "S">>
sports == <<"s", "p", "o", "r", "t", "s">>
news == <<"n", "e", "w", "s">>
tech == <<"t", "e", "c", "h">>
Tech == <<"T", "e", "c", "h">>
InterestWords == {Sports, NEWS}
\* Every sequence over S of length at most n.
SeqsUpTo(S, n) == UNION {[1..k -> S] : k \in 0..n}
InterestLists == SeqsUpTo(InterestWords, MaxLen)
NotInt == PyStr(1)
UserIds == {PyInt(i) : i \in 1..MaxUsers}
\* The arguments of update_user_interests and whether the storage fails.
UpdateArgs ==
    (UserIds \X {PyList(l) : l \in InterestLists} \X {FALSE})
    \cup {<<NotInt, PyList(<<>>), FALSE>>, <<PyInt(1), PyNotList, FALSE>>,
          <<PyInt(1), PyList(<<Sports>>), TRUE>>}

Interests == {tech, Tech}
QuestionIds == {PyInt(i) : i \in 1..MaxQuestions}
Viewers == {PyInt(1), PyInt(2)}
Counts == {PyInt(0 - 1), PyInt(1), PyInt(MaxQuestions)}
InterestFilters == {None, Some(tech), Some(Tech)}
Results == {PyBool(TRUE), PyBool(FALSE)}
Notes == {None, Some(<<"o", "k">>)}
Articles == <<<<"u", "r", "l">>>>
Links == <<<<"u", "r", "l">>>>
PlainText == <<"r", "a", "i", "n", "?">>

\* The arguments of mark_question_as_viewed and whether the storage fails.
MarkArgs ==
    (QuestionIds \X Viewers \X BOOLEAN)
    \cup {<<NotInt, PyInt(1), FALSE>>, <<PyInt(1), NotInt, FALSE>>}
\* The arguments of get_multiple_unused_questions and whether the storage
\* fails.
MultipleArgs ==
    (Interests \X Viewers \X Counts \X {FALSE})
    \cup {<<tech, NotInt, PyInt(1), FALSE>>, <<tech, PyInt(1), NotInt, FALSE>>,
          <<tech, PyInt(1), PyInt(1), TRUE>>, <<tech, PyInt(1), PyInt(0 - 1), TRUE>>}
\* The arguments of resolve_question and whether the storage fails.
ResolveArgs ==
    (QuestionIds \X Results \X Notes \X {FALSE})
    \cup {<<NotInt, PyBool(TRUE), None, FALSE>>, <<PyInt(1), PyInt(1), None, FALSE>>,
          <<PyInt(1), PyBool(TRUE), None, TRUE>>}

\* Question texts: up to MaxText pieces, one after the other.
Pieces ==
    {<<"T", "o", "m", "o", "r", "r", "o", "w", " ">>,
     <<"t", "h", "i", "s", " ", "w", "e", "e", "k">>,
     <<"W", "E", "E", "K", "E", "N", "D">>,
     <<"e", "n", "d", " ">>,
     <<"r", "a", "i", "n", " ">>}
RECURSIVE Concat(_)
Concat(ps) == IF Len(ps) = 0 THEN <<>> ELSE Head(ps) \o Concat(Tail(ps))
Texts == {Concat(ps) : ps \in SeqsUpTo(Pieces, MaxText)}

Init ==
    /\ users = <<>>
    /\ questions = <<>>
    /\ views = EmptyBag
    /\ today = 0
    /\ now = 0
    /\ input = PlainText
    /\ ret = Ret("init", <<>>, "none", None, FALSE)

\* The operations on users.
NextUsers ==
    \/ \E u \in Usernames, l \in {<<>>, <<Sports>>}, fail \in BOOLEAN :
          create_user(u, l, fail)
    \/ \E u \in Usernames, fail \in BOOLEAN : get_user(u, fail)
    \/ \E a \in UpdateArgs : update_user_interests(a[1], a[2], a[3])

SpecUsers == Init /\ [][NextUsers]_vars

\* Storing questions and serving the ones a user has not seen.
NextViews ==
    \/ \E fail \in BOOLEAN : save_question(input, tech, Articles, fail)
    \/ \E fail \in BOOLEAN : create_question(input, Tech, Articles, Links, fail)
    \/ \E a \in MarkArgs : mark_question_as_viewed(a[1], a[2], a[3])
    \/ \E i \in Interests, u \in Viewers, fail \in BOOLEAN :
          get_unused_question(i, u, fail)
    \/ \E a \in MultipleArgs : get_multiple_unused_questions(a[1], a[2], a[3], a[4])

SpecViews == Init /\ [][NextViews]_vars

\* Viewing questions as time passes, and the history.
NextHistory ==
    \/ create_question(input, tech, Articles, Links, FALSE)
    \/ \E q \in QuestionIds, u \in Viewers : mark_question_as_viewed(q, u, FALSE)
    \/ \E u \in Viewers, i \in InterestFilters, fail \in BOOLEAN :
          get_user_question_history(u, i, fail)
    \/ Tick

SpecHistory == Init /\ [][NextHistory]_vars

\* Resolving questions as time passes.
NextResolution ==
    \/ create_question(input, tech, Articles, Links, FALSE)
    \/ \E a \in ResolveArgs : resolve_question(a[1], a[2], a[3], a[4])
    \/ \E fail \in BOOLEAN : get_pending_resolutions(fail)
    \/ Tick

SpecResolution == Init /\ [][NextResolution]_vars

\* Saved and created questions waiting for their resolution.
NextPending ==
    \/ \E fail \in BOOLEAN : save_question(input, tech, Articles, fail)
    \/ \E fail \in BOOLEAN : create_question(input, tech, Articles, Links, fail)
    \/ \E q \in QuestionIds, r \in Results, fail \in BOOLEAN :
          resolve_question(q, r, None, fail)
    \/ \E fail \in BOOLEAN : get_pending_resolutions(fail)
    \/ \E i \in InterestFilters, fail \in BOOLEAN : get_questions(i, fail)

SpecPending == Init /\ [][NextPending]_vars

\* The resolution date of a saved question, for every text and weekday.
InitDate ==
    /\ users = <<>>
    /\ questions = <<>>
    /\ views = EmptyBag
    /\ today \in 0..(DaysInWeek - 1)
    /\ now = 0
    /\ input \in Texts
    /\ ret = Ret("init", <<>>, "none", None, FALSE)

NextDate == \E fail \in BOOLEAN : save_question(input, tech, Articles, fail)

SpecDate == InitDate /\ [][NextDate]_vars

\* Every operation of the layer.
Next ==
    \/ NextUsers
    \/ NextViews
    \/ NextHistory
    \/ NextResolution
    \/ NextPending
    \/ NextDate

Spec == Init /\ [][Next]_vars

-----------------------------------------------------------------------------
(* Claims. *)

\* What get_user(username) can return on the table tbl when the storage
\* answers.
get_user_values(tbl, username) == {row_dict(tbl, i) : i \in named_in(tbl, username)}

\* l2 is l1 with each element lower-cased: same length, same order.
IsLowered(l1, l2) ==
    /\ Len(l2) = Len(l1)
    /\ \A k \in 1..Len(l1) :
          /\ Len(l2[k]) = Len(l1[k])
          /\ \A c \in 1..Len(l1[k]) : l2[k][c] = lower_char(l1[k][c])

\* A step in which update_user_interests(uid, L) returned without a storage
\* error.
UpdateStep ==
    /\ ret'.op = "update_user_interests"
    /\ ret'.raised = "none"
    /\ ~ret'.dberr

\* C7: after update_user_interests(uid, L) on an existing user, get_user of
\* that user's username gives exactly L lower-cased element by element (and
\* ["Sports","NEWS"] gives ["sports","news"]); with no user of id uid no
\* stored user changes.
C7_UpdateRoundTrip ==
    [][UpdateStep =>
        LET uid == ret'.args[1].v
            L == ret'.args[2].items
        IN  IF uid \in 1..Len(users)
            THEN /\ \A d \in get_user_values(users', users[uid].username) :
                       /\ d.id = uid
                       /\ IsLowered(L, d.interests)
                       /\ (L = <<Sports, NEWS>> => d.interests = <<sports, news>>)
                 /\ get_user_values(users', users[uid].username) # {}
            ELSE users' = users]_vars

\* get_user has returned ["sports","news"] for a user.
C7_Witness ==
    /\ ret.op = "get_user"
    /\ ret.value # None
    /\ ret.value[1].interests = <<sports, news>>

\* The ids of the questions the last call served, when it was one of the two
\* unused-question calls (none when it raised).
served_ids ==
    IF ret.op \in {"get_unused_question", "get_multiple_unused_questions"}
    THEN {ret.value[k].id : k \in 1..Len(ret.value)}
    ELSE {}

\* User u has a view row for question q.
has_viewed(tbl, u, q) ==
    \E r \in BagToSet(tbl) : r.user_id = u /\ r.question_id = q

\* A step in which mark_question_as_viewed(Q, U) completed: integer
\* arguments and no storage error.
MarkedStep ==
    /\ ret'.op = "mark_question_as_viewed"
    /\ ret'.raised = "none"
    /\ ~ret'.dberr

\* C1: once mark_question_as_viewed(Q, U) has completed, the view row (U, Q)
\* exists, no later step removes a view row, and no result of
\* get_unused_question or get_multiple_unused_questions for U holds a question
\* that has a view row of U.
C1_ViewedNeverServed ==
    /\ [][MarkedStep => has_viewed(views', ret'.args[2].v, ret'.args[1].v)]_vars
    /\ [][\A r \in BagToSet(views) :
             r \in BagToSet(views') /\ CopiesIn(r, views') >= CopiesIn(r, views)]_vars
    /\ [](\A q \in served_ids : ~has_viewed(views, ret.args[2].v, q))

\* An unused-question call for U and interest i returned while U has viewed
\* a stored question of the interest the call queried and another of them is
\* still unseen.
C1_Witness ==
    /\ ret.op = "get_unused_question"
    /\ ret.value # None
    /\ \E q \in 1..Len(questions) :
          /\ questions[q].interest = ret.args[1]
          /\ has_viewed(views, ret.args[2].v, q)

\* The stored questions of interest i that user u has no view row for.
unseen(i, u) ==
    {q \in 1..Len(questions) :
        questions[q].interest = i /\ ~has_viewed(views, u, q)}

\* C2: a stored question Q of interest i with no view row of U is a possible
\* result of get_unused_question(i, U), which then does not return None, and
\* is in the list of get_multiple_unused_questions(i, U, count) when count is
\* at least the number of questions of interest i unseen by U.
C2_UnseenIsServed ==
    /\ \A i \in Interests, u \in Viewers : \A q \in unseen(i, u.v) :
          ENABLED (/\ get_unused_question(i, u, FALSE)
                   /\ ret'.value # None
                   /\ ret'.value[1].id = q)
    /\ (ret.op = "get_unused_question" /\ ~ret.dberr
          /\ unseen(ret.args[1], ret.args[2].v) # {})
       => ret.value # None
    /\ (ret.op = "get_multiple_unused_questions" /\ ret.raised = "none" /\ ~ret.dberr
          /\ ret.args[3].v >= Cardinality(unseen(ret.args[1], ret.args[2].v)))
       => unseen(ret.args[1], ret.args[2].v) \subseteq served_ids

\* No id occurs twice in the list.
distinct_ids(list) ==
    \A a, b \in 1..Len(list) : a # b => list[a].id # list[b].id

\* get_multiple_unused_questions returned with integer arguments.
MultipleReturned ==
    /\ ret.op = "get_multiple_unused_questions"
    /\ ret.raised = "none"

\* C9 as stated: at most count entries, no id twice, every entry of the
\* requested interest and without a view row of U.
C9_Original ==
    MultipleReturned =>
        /\ Len(ret.value) <= ret.args[3].v
        /\ distinct_ids(ret.value)
        /\ \A k \in 1..Len(ret.value) :
              /\ ret.value[k].interest = ret.args[1]
              /\ ~has_viewed(views, ret.args[2].v, ret.value[k].id)

\* C9, amended: for a count of at least 0 the list has at most count entries;
\* for every integer count no id occurs twice and every entry has the
\* lower-cased requested interest and no view row of U.
C9_CappedUnseenLowered ==
    MultipleReturned =>
        /\ ret.args[3].v >= 0 => Len(ret.value) <= ret.args[3].v
        /\ distinct_ids(ret.value)
        /\ \A k \in 1..Len(ret.value) :
              /\ Len(ret.value[k].interest) = Len(ret.args[1])
              /\ \A c \in 1..Len(ret.args[1]) :
                    ret.value[k].interest[c] = lower_char(ret.args[1][c])
              /\ ~has_viewed(views, ret.args[2].v, ret.value[k].id)

\* The count cut the list: one entry returned for count 1 while a second
\* question of that interest is unseen too.
C9_Witness ==
    /\ MultipleReturned
    /\ ret.args[3].v = 1
    /\ Len(ret.value) = 1
    /\ \E q \in 1..Len(questions) :
          /\ q # ret.value[1].id
          /\ questions[q].interest = ret.value[1].interest
          /\ ~has_viewed(views, ret.args[2].v, q)

\* C10: mark_question_as_viewed with a non-integer question_id or user_id
\* raises ValueError to the caller and leaves the view rows as they were; with
\* integer arguments and a failing insert it returns without raising and
\* leaves the view rows as they were.
C10_MarkErrors ==
    [][ret'.op = "mark_question_as_viewed" =>
        /\ (~isinstance_int(ret'.args[1]) \/ ~isinstance_int(ret'.args[2]))
              => (ret'.raised = "ValueError" /\ views' = views)
        /\ (isinstance_int(ret'.args[1]) /\ isinstance_int(ret'.args[2]) /\ ret'.dberr)
              => (ret'.raised = "none" /\ views' = views)]_vars

\* A mark with a non-integer argument raised ValueError with view rows
\* stored.
C10_Witness ==
    /\ ret.op = "mark_question_as_viewed"
    /\ ret.raised = "ValueError"
    /\ views # EmptyBag

\* The number of view rows of user u in the table, copies counted, and of
\* those whose question is stored.
n_views(u) == Cardinality({x \in view_rows : x[1].user_id = u})
n_views_stored(u) ==
    Cardinality({x \in view_rows :
                    x[1].user_id = u /\ x[1].question_id \in 1..Len(questions)})

\* get_user_question_history(U) returned, no interest given and no error
\* swallowed.
HistoryReturned ==
    /\ ret.op = "get_user_question_history"
    /\ ret.args[2] = None
    /\ ~ret.dberr

\* C6 as stated: one entry per view row of U, and viewed_at strictly
\* decreasing from each entry to the next.
C6_Original ==
    HistoryReturned =>
        /\ Len(ret.value) = n_views(ret.args[1].v)
        /\ \A k \in 1..(Len(ret.value) - 1) :
              fmt_less(ret.value[k + 1].viewed_at, ret.value[k].viewed_at)

\* C6, amended: one entry per view row of U whose question is stored, and
\* viewed_at never increasing from each entry to the next.
C6_HistoryNewestFirst ==
    HistoryReturned =>
        /\ Len(ret.value) = n_views_stored(ret.args[1].v)
        /\ \A k \in 1..(Len(ret.value) - 1) :
              ~fmt_less(ret.value[k].viewed_at, ret.value[k + 1].viewed_at)

\* A history of two entries of the same question, viewed in different
\* seconds: the later view comes first.
C6_Witness ==
    /\ HistoryReturned
    /\ Len(ret.value) = 2
    /\ ret.value[1].id = ret.value[2].id
    /\ fmt_less(ret.value[2].viewed_at, ret.value[1].viewed_at)

\* A step in which resolve_question(id, result, note) completed on a stored
\* question: integer id, boolean result, no storage error.
ResolvedStep ==
    /\ ret'.op = "resolve_question"
    /\ ret'.raised = "none"
    /\ ~ret'.dberr
    /\ ret'.args[1].v \in 1..Len(questions)

\* C3: resolve_question on a question whose resolved_at is set leaves its
\* resolved_at, outcome and resolution_note as the first resolution wrote
\* them.
C3_NoReResolution ==
    [][(ResolvedStep /\ questions[ret'.args[1].v].resolved_at # None) =>
        LET q == ret'.args[1].v
        IN  /\ questions'[q].resolved_at = questions[q].resolved_at
            /\ questions'[q].outcome = questions[q].outcome
            /\ questions'[q].resolution_note = questions[q].resolution_note]_vars

\* C4: resolve_question on a stored question sets resolved_at; a resolved_at
\* that is set is never null again; no result of get_pending_resolutions
\* holds a question whose resolved_at is set.
C4_ResolvedStaysResolved ==
    /\ [][ResolvedStep => questions'[ret'.args[1].v].resolved_at # None]_vars
    /\ [][\A i \in 1..Len(questions) :
             questions[i].resolved_at # None =>
                 (i <= Len(questions') /\ questions'[i].resolved_at # None)]_vars
    /\ []((ret.op = "get_pending_resolutions" /\ ret.raised = "none") =>
             \A k \in 1..Len(ret.value) :
                 questions[ret.value[k].id].resolved_at = None)

\* get_pending_resolutions returned a question while another one is
\* resolved.
C4_Witness ==
    /\ ret.op = "get_pending_resolutions"
    /\ ret.raised = "none"
    /\ Len(ret.value) >= 1
    /\ \E i \in 1..Len(questions) : questions[i].resolved_at # None

\* C5: get_pending_resolutions does not fail and returns exactly the
\* questions whose resolved_at is null, those of save_question included.
C5_PendingIsUnresolved ==
    (ret.op = "get_pending_resolutions" /\ ~ret.dberr) =>
        /\ ret.raised = "none"
        /\ {ret.value[k].id : k \in 1..Len(ret.value)} =
              {i \in 1..Len(questions) : questions[i].resolved_at = None}
        /\ Len(ret.value) =
              Cardinality({i \in 1..Len(questions) : questions[i].resolved_at = None})

\* text holds kw at some place, letter case aside.
has_keyword(text, kw) ==
    \E i \in 1..(Len(text) - Len(kw) + 1) :
        \A j \in 1..Len(kw) : lower_char(text[i + j - 1]) = kw[j]

\* The days the claim adds for a text on weekday wd.
claimed_days(text, wd) ==
    IF has_keyword(text, kw_tomorrow) THEN 1
    ELSE IF has_keyword(text, kw_this_week) THEN 7
    ELSE IF has_keyword(text, kw_weekend) THEN (6 - wd) % 7
    ELSE 7

\* C8: the resolution date save_question stores is now plus d days, d = 1
\* for "tomorrow", else 7 for "this week", else (6 - weekday) mod 7 for
\* "weekend" (0 <= d <= 6, 0 on a Sunday, the date a Sunday), else 7.
C8_ResolutionDate ==
    [][(ret'.op = "save_question" /\ ret'.raised = "none") =>
        LET text == ret'.args[1]
            wd == today % 7
            d == claimed_days(text, wd)
            q == questions'[Len(questions')]
        IN  /\ q.resolution_date = Some([day |-> today + d, tick |-> now])
            /\ (~has_keyword(text, kw_tomorrow) /\ ~has_keyword(text, kw_this_week)
                  /\ has_keyword(text, kw_weekend))
               => /\ 0 <= d /\ d <= 6
                  /\ (today + d) % 7 = 6
                  /\ wd = 6 => d = 0]_vars

\* A question saved on a Sunday with "weekend" in its text and neither of
\* the other keywords: its resolution date is that day.
C8_Witness ==
    /\ ret.op = "save_question"
    /\ ret.raised = "none"
    /\ today % 7 = 6
    /\ has_keyword(ret.args[1], kw_weekend)
    /\ questions[Len(questions)].resolution_date = Some([day |-> today, tick |-> now])

====
